---- MODULE Spec2Model ----
(***************************************************************************)
(* The generated Set type of makeset (the template mainFile), modelled as  *)
(* a client program holding a few Set variables over a heap of Go maps.    *)
(* A Set value is nil or a reference to a map; two variables may refer to  *)
(* the same map.  Every method of the template is an operator on the heap, *)
(* translated from its body, and an action that calls it on the client's   *)
(* variables.                                                              *)
(***************************************************************************)
EXTENDS Integers, Sequences, FiniteSets, TLC

\* ------------------------------------------------------------- bounds
NumElem == 2        \* number of distinct element values
MaxElts == 2        \* longest variadic argument list
MaxImports == 2     \* longest list of imports or testImports of a configuration

\* ------------------------------------------------------------- values
Elem == 0 .. (NumElem - 1)
\* {{.Zero}}: the zero value of the element type, itself a legal element.
Zero == 0
\* A Set value is nil or the address of a map; the maps that exist are at the
\* addresses 1 .. Len(heap).
Nil == 0
\* The client's variables of type Set.
Reg == {"a", "b", "c"}

Range(q) == {q[i] : i \in 1 .. Len(q)}

EltSeqs == UNION {[1 .. n -> Elem] : n \in 0 .. MaxElts}
\* A predicate func(T) bool is the set of elements it accepts.
Preds == SUBSET Elem
\* A function func(T) T.
Funcs == [Elem -> Elem]
\* The size hints given to NewSize.
Sizes == {-1, 0, 1}

VARIABLES
    reg,    \* reg[r]: the Set value held by variable r (Nil or an address)
    heap,   \* heap[a]: the keys of the map at address a
    last,   \* the last call: its operands, the heap before and after, its results
    gen     \* a run of makeset: its configuration, its position, the files written

vars == <<reg, heap, last, gen>>

\* ------------------------------------------------------------- the store
\* type Set map[T]struct{}: the keys of a Set value; a nil map has none.
Members(st, s) == IF s = Nil THEN {} ELSE st[s]

MinOf(S) == CHOOSE x \in S : \A y \in S : x <= y

\* make(Set): a new, empty map at an address no other map has.
Make(st) == [st |-> Append(st, {}), v |-> Len(st) + 1]

\* set[k] = struct{}{}
Store(st, s, k) == [st EXCEPT ![s] = @ \cup {k}]

\* delete(s, k); deleting from a nil map is a no-op.
Delete(st, s, k) == IF s = Nil THEN st ELSE [st EXCEPT ![s] = @ \ {k}]

\* for _, elt := range elts { s[elt] = struct{}{} }
RECURSIVE StoreAll(_, _, _)
StoreAll(st, s, elts) ==
    IF elts = <<>> THEN st
    ELSE StoreAll(Store(st, s, Head(elts)), s, Tail(elts))

\* for _, elt := range elts { delete(s, elt) }
RECURSIVE DeleteAll(_, _, _)
DeleteAll(st, s, elts) ==
    IF elts = <<>> THEN st
    ELSE DeleteAll(Delete(st, s, Head(elts)), s, Tail(elts))

\* for k := range keys { s[k] = struct{}{} }: a range over a map produces each
\* key once, in an unspecified order; the stores commute, so the order is not
\* observable in the store.
StoreKeys(st, s, keys) ==
    IF keys = {} THEN st ELSE [st EXCEPT ![s] = @ \cup keys]

\* for k := range keys { delete(s, k) }; when keys are those of s itself every
\* key is still produced, and deleted, once.
DeleteKeys(st, s, keys) ==
    IF keys = {} \/ s = Nil THEN st ELSE [st EXCEPT ![s] = @ \ keys]

\* The client's variables in the order of their declaration.
RegOrder == <<"a", "b", "c">>

\* The garbage collector: a map no variable refers to no longer exists, and the
\* maps that remain are identified only by which variables refer to them, so the
\* k-th map in the order of the variables is kept at address k.
Collect(st, rg) ==
    LET liveA    == {rg[r] : r \in Reg} \ {Nil}
        first(A) == MinOf({i \in 1 .. Len(RegOrder) : rg[RegOrder[i]] = A})
        to(A)    == Cardinality({B \in liveA : first(B) < first(A)}) + 1
        from(k)  == CHOOSE A \in liveA : to(A) = k
        n        == Cardinality(liveA)
    IN  [reg  |-> [r \in Reg |-> IF rg[r] = Nil THEN Nil ELSE to(rg[r])],
         heap |-> [k \in 1 .. n |-> st[from(k)]]]

\* ------------------------------------------------------------- methods
\* New with the early return of a nil Set for an empty argument list.
NewNilWhenEmpty(st, elts) ==
    IF elts = <<>> THEN [st |-> st, v |-> Nil]
    ELSE LET m == Make(st)
         IN  [st |-> StoreAll(m.st, m.v, elts), v |-> m.v]

\* func New(elts ...T) Set
New(st, elts) ==
    LET m == Make(st)
    IN  [st |-> StoreAll(m.st, m.v, elts), v |-> m.v]

\* func NewSize(n int) Set { return make(Set, n) }: the possible outcomes.  make
\* with a negative size panics in the releases of Go whose runtime checks the
\* hint (makemap: size out of range); the later ones take the hint as 0.
NewSize(st, n) ==
    {[st |-> m.st, v |-> m.v, panic |-> FALSE] : m \in {Make(st)}}
        \cup (IF n < 0 THEN {[st |-> st, v |-> Nil, panic |-> TRUE]} ELSE {})

\* func (s Set) Len() int
SetLen(st, s) == Cardinality(Members(st, s))

\* Empty as a comparison with nil.
EmptyOnlyNil(st, s) == s = Nil

\* func (s Set) Empty() bool
Empty(st, s) == SetLen(st, s) = 0

\* byElement.Less: return e[i] < e[j] (no Less configured)
isLess(x, y) == x < y

\* sort.Sort(byElement(elts)): insert e into the sorted sequence srt.
RECURSIVE Insert(_, _)
Insert(srt, e) ==
    IF srt = <<>> THEN <<e>>
    ELSE IF isLess(e, Head(srt)) THEN <<e>> \o srt
    ELSE <<Head(srt)>> \o Insert(Tail(srt), e)

RECURSIVE Sort(_)
Sort(elts) == IF elts = <<>> THEN <<>> ELSE Insert(Sort(Tail(elts)), Head(elts))

\* The orders in which a range over a map with keys S may produce them.
RECURSIVE Perms(_)
Perms(S) ==
    IF S = {} THEN {<<>>}
    ELSE UNION {{<<x>> \o p : p \in Perms(S \ {x})} : x \in S}

\* make([]T, n, ...): a slice of n zero values.
MakeSlice(n) == [i \in 1 .. n |-> Zero]

\* Unordered appending to a slice made with length len(s) rather than capacity.
UnorderedPadded(st, s) ==
    IF SetLen(st, s) = 0 THEN {<<>>}
    ELSE {MakeSlice(SetLen(st, s)) \o p : p \in Perms(Members(st, s))}

\* func (s Set) Unordered() []T: the possible results.
Unordered(st, s) ==
    IF SetLen(st, s) = 0 THEN {<<>>}
    ELSE {MakeSlice(0) \o p : p \in Perms(Members(st, s))}

\* Elements without the sort.
ElementsUnsorted(st, s) == Unordered(st, s)

\* func (s Set) Elements() []T: the possible results.
Elements(st, s) == {Sort(u) : u \in Unordered(st, s)}

\* ContainsAny deciding on the first element alone.
ContainsAnyFirstOnly(st, s, elts) ==
    IF elts = <<>> THEN FALSE ELSE Head(elts) \in Members(st, s)

\* func (s Set) ContainsAny(elts ...T) bool
RECURSIVE ContainsAny(_, _, _)
ContainsAny(st, s, elts) ==
    IF elts = <<>> THEN FALSE
    ELSE IF Head(elts) \in Members(st, s) THEN TRUE
    ELSE ContainsAny(st, s, Tail(elts))

\* Contains returning at the first element found, as ContainsAny does.
ContainsSome(st, s, elts) ==
    elts = <<>> \/ \E i \in 1 .. Len(elts) : elts[i] \in Members(st, s)

\* func (s Set) Contains(elts ...T) bool
RECURSIVE Contains(_, _, _)
Contains(st, s, elts) ==
    IF elts = <<>> THEN TRUE
    ELSE IF Head(elts) \notin Members(st, s) THEN FALSE
    ELSE Contains(st, s, Tail(elts))

\* IsSubset refusing a receiver as long as the argument.
IsSubsetStrict(st, s, s2) ==
    IF Empty(st, s) THEN TRUE
    ELSE IF SetLen(st, s) >= SetLen(st, s2) THEN FALSE
    ELSE \A k \in Members(st, s) : k \in Members(st, s2)

\* IsSubset without the loop over the keys of s.
IsSubsetByLen(st, s, s2) ==
    IF Empty(st, s) THEN TRUE
    ELSE IF SetLen(st, s) > SetLen(st, s2) THEN FALSE
    ELSE TRUE

\* func (s Set) IsSubset(s2 Set) bool
IsSubset(st, s, s2) ==
    IF Empty(st, s) THEN TRUE
    ELSE IF SetLen(st, s) > SetLen(st, s2) THEN FALSE
    ELSE \A k \in Members(st, s) : k \in Members(st, s2)

\* Equals without the comparison of the lengths.
EqualsOneWay(st, s, s2) == IsSubset(st, s, s2)

\* func (s Set) Equals(s2 Set) bool
Equals(st, s, s2) == SetLen(st, s) = SetLen(st, s2) /\ IsSubset(st, s, s2)

\* func (s Set) Intersects(s2 Set) bool
Intersects(st, s, s2) ==
    LET swap == SetLen(st, s2) < SetLen(st, s)
        a == IF swap THEN s2 ELSE s
        b == IF swap THEN s ELSE s2
    IN  \E k \in Members(st, a) : k \in Members(st, b)

\* Union returning the empty operand instead of the other one.
UnionSwapped(st, s, s2) ==
    IF Empty(st, s) THEN [st |-> st, v |-> s]
    ELSE IF Empty(st, s2) THEN [st |-> st, v |-> s2]
    ELSE LET m  == Make(st)
             s1 == StoreKeys(m.st, m.v, Members(st, s))
         IN  [st |-> StoreKeys(s1, m.v, Members(st, s2)), v |-> m.v]

\* func (s Set) Union(s2 Set) Set
Union(st, s, s2) ==
    IF Empty(st, s) THEN [st |-> st, v |-> s2]
    ELSE IF Empty(st, s2) THEN [st |-> st, v |-> s]
    ELSE LET m  == Make(st)
             s1 == StoreKeys(m.st, m.v, Members(st, s))
         IN  [st |-> StoreKeys(s1, m.v, Members(st, s2)), v |-> m.v]

\* func (s Set) Intersect(s2 Set) Set
Intersect(st, s, s2) ==
    IF Empty(st, s) \/ Empty(st, s2) THEN [st |-> st, v |-> Nil]
    ELSE LET m  == Make(st)
             s1 == StoreKeys(m.st, m.v, {k \in Members(st, s) : k \in Members(st, s2)})
         IN  IF SetLen(s1, m.v) = 0 THEN [st |-> s1, v |-> Nil]
             ELSE [st |-> s1, v |-> m.v]

\* Diff deleting the keys of s2 from s itself.
DiffInPlace(st, s, s2) ==
    IF Empty(st, s) \/ Empty(st, s2) THEN [st |-> st, v |-> s]
    ELSE [st |-> DeleteKeys(st, s, Members(st, s2)), v |-> s]

\* func (s Set) Diff(s2 Set) Set
Diff(st, s, s2) ==
    IF Empty(st, s) \/ Empty(st, s2) THEN [st |-> st, v |-> s]
    ELSE LET m  == Make(st)
             s1 == StoreKeys(m.st, m.v, {k \in Members(st, s) : k \notin Members(st, s2)})
         IN  IF SetLen(s1, m.v) = 0 THEN [st |-> s1, v |-> Nil]
             ELSE [st |-> s1, v |-> m.v]

\* SymDiff as the difference s \ s2.
SymDiffOneSided(st, s, s2) == Diff(st, s, s2)

\* func (s Set) SymDiff(s2 Set) Set
SymDiff(st, s, s2) ==
    CHOOSE d \in UNION {{Diff(i.st, u.v, i.v) : i \in {Intersect(u.st, s, s2)}}
                         : u \in {Union(st, s, s2)}} : TRUE

\* Update taking s2 itself for a nil *s.
UpdateAliases(st, s, s2) ==
    LET in == SetLen(st, s)
        m  == IF s = Nil /\ SetLen(st, s2) > 0 THEN [st |-> st, v |-> s2]
              ELSE [st |-> st, v |-> s]
        s1 == StoreKeys(m.st, m.v, Members(st, s2))
    IN  [st |-> s1, v |-> m.v, ret |-> SetLen(s1, m.v) # in]

\* Update allocating whenever *s is nil, as Add does.
UpdateAllocates(st, s, s2) ==
    LET in == SetLen(st, s)
        m  == IF s = Nil THEN Make(st) ELSE [st |-> st, v |-> s]
        s1 == StoreKeys(m.st, m.v, Members(st, s2))
    IN  [st |-> s1, v |-> m.v, ret |-> SetLen(s1, m.v) # in]

\* func (s *Set) Update(s2 Set) bool; v is *s after the call.
Update(st, s, s2) ==
    LET in == SetLen(st, s)
        m  == IF s = Nil /\ SetLen(st, s2) > 0 THEN Make(st) ELSE [st |-> st, v |-> s]
        s1 == StoreKeys(m.st, m.v, Members(st, s2))
    IN  [st |-> s1, v |-> m.v, ret |-> SetLen(s1, m.v) # in]

\* Add reporting a change whenever it was given an element.
AddReportsArgs(st, s, ss) ==
    LET m  == IF s = Nil THEN Make(st) ELSE [st |-> st, v |-> s]
        s1 == StoreAll(m.st, m.v, ss)
    IN  [st |-> s1, v |-> m.v, ret |-> Len(ss) > 0]

\* func (s *Set) Add(ss ...T) bool; v is *s after the call.
Add(st, s, ss) ==
    LET in == SetLen(st, s)
        m  == IF s = Nil THEN Make(st) ELSE [st |-> st, v |-> s]
        s1 == StoreAll(m.st, m.v, ss)
    IN  [st |-> s1, v |-> m.v, ret |-> SetLen(s1, m.v) # in]

\* Remove with its test of the receiver inverted.
RemoveGuardInverted(st, s, s2) ==
    LET in == SetLen(st, s)
        s1 == IF Empty(st, s) THEN DeleteKeys(st, s, Members(st, s2)) ELSE st
    IN  [st |-> s1, ret |-> SetLen(s1, s) # in]

\* func (s Set) Remove(s2 Set) bool
Remove(st, s, s2) ==
    LET in == SetLen(st, s)
        s1 == IF ~Empty(st, s) THEN DeleteKeys(st, s, Members(st, s2)) ELSE st
    IN  [st |-> s1, ret |-> SetLen(s1, s) # in]

\* Discard reporting a change whenever it was given an element.
DiscardReportsArgs(st, s, elts) ==
    LET s1 == IF ~Empty(st, s) THEN DeleteAll(st, s, elts) ELSE st
    IN  [st |-> s1, ret |-> Len(elts) > 0]

\* func (s Set) Discard(elts ...T) bool
Discard(st, s, elts) ==
    LET in == SetLen(st, s)
        s1 == IF ~Empty(st, s) THEN DeleteAll(st, s, elts) ELSE st
    IN  [st |-> s1, ret |-> SetLen(s1, s) # in]

\* Clone returning its receiver.
CloneAlias(st, s) == [st |-> st, v |-> s]

\* func (s Set) Clone() Set
Clone(st, s) ==
    LET u == Update(st, Nil, s)
    IN  [st |-> u.st, v |-> u.v]

\* ------------------------------------------------------------- transforms
\* A func(T) bool argument: nil, or the predicate accepting the elements acc.
NilPred == [nil |-> TRUE, acc |-> {}]
Pred(P) == [nil |-> FALSE, acc |-> P]
PredFuncs == {Pred(P) : P \in Preds}
PredArgs == {NilPred} \cup PredFuncs

\* The function that returns its argument.
Ident == [k \in Elem |-> k]

\* A func(T) T argument: nil, or the function fn.
NilFunc == [nil |-> TRUE, fn |-> Ident]
Func(h) == [nil |-> FALSE, fn |-> h]
FuncArgs == {NilFunc} \cup {Func(h) : h \in Funcs}

\* for k := range s { ... f(k) ... } with f nil: the call of a nil func panics,
\* and it is made for the first key the range produces.
CallsNil(st, s, f) == f.nil /\ Members(st, s) # {}

\* for k := range keys { out.Add(f(k)) }, out a local variable of type Set.
RECURSIVE AddEach(_, _, _, _)
AddEach(st, out, keys, f) ==
    IF keys = {} THEN [st |-> st, v |-> out]
    ELSE CHOOSE res \in UNION {{AddEach(r.st, r.v, keys \ {k}, f)
                                  : r \in {Add(st, out, <<f[k]>>)}}
                                : k \in {CHOOSE x \in keys : TRUE}} : TRUE

\* Map adding k where it should add f(k).
MapKeys(st, s, f) == AddEach(st, Nil, Members(st, s), Ident)

\* func (s Set) Map(f func(T) T) Set
Map(st, s, f) == AddEach(st, Nil, Members(st, s), f)

\* func (s Set) Select(f func(T) bool) Set
Select(st, s, f) ==
    AddEach(st, Nil, {k \in Members(st, s) : k \in f.acc}, Ident)

\* Partition with the two branches exchanged.
PartitionSwapped(st, s, f) ==
    CHOOSE res \in UNION {{[st |-> n.st, yes |-> y.v, no |-> n.v]
            : n \in {AddEach(y.st, Nil, {k \in Members(st, s) : k \in f.acc}, Ident)}}
            : y \in {AddEach(st, Nil, {k \in Members(st, s) : k \notin f.acc}, Ident)}} : TRUE

\* func (s Set) Partition(f func(T) bool) (yes, no Set)
Partition(st, s, f) ==
    CHOOSE res \in UNION {{[st |-> n.st, yes |-> y.v, no |-> n.v]
            : n \in {AddEach(y.st, Nil, {k \in Members(st, s) : k \notin f.acc}, Ident)}}
            : y \in {AddEach(st, Nil, {k \in Members(st, s) : k \in f.acc}, Ident)}} : TRUE

\* Choose returning the first key of the range whatever f says of it.
ChooseIgnoresPred(st, s, f) ==
    IF Members(st, s) # {} THEN {[e |-> k, ok |-> TRUE] : k \in Members(st, s)}
    ELSE {[e |-> Zero, ok |-> FALSE]}

\* func (s Set) Choose(f func(T) bool) (T, bool): the possible results.
Choose(st, s, f) ==
    LET any == IF f.nil THEN {[e |-> k, ok |-> TRUE] : k \in Members(st, s)} ELSE {}
        sat == {[e |-> k, ok |-> TRUE] : k \in {x \in Members(st, s) : x \in f.acc}}
    IN  IF any # {} THEN any
        ELSE IF sat # {} THEN sat
        ELSE {[e |-> Zero, ok |-> FALSE]}

\* Pop without the delete.
PopKeeps(st, s, f) ==
    {IF c.ok THEN [st |-> st, e |-> c.e, ok |-> TRUE]
     ELSE [st |-> st, e |-> Zero, ok |-> FALSE] : c \in Choose(st, s, f)}

\* func (s Set) Pop(f func(T) bool) (T, bool): the possible results.
Pop(st, s, f) ==
    {IF c.ok THEN [st |-> Delete(st, s, c.e), e |-> c.e, ok |-> TRUE]
     ELSE [st |-> st, e |-> Zero, ok |-> FALSE] : c \in Choose(st, s, f)}

\* func (s Set) Count(f func(T) bool) (n int)
Count(st, s, f) == Cardinality({k \in Members(st, s) : k \in f.acc})

\* func (s Set) Each(f func(T)): the possible sequences of calls of f.
Each(st, s) == Perms(Members(st, s))

\* The argument v interface{} of FromKeys: its dynamic type (kind) and value.
\*   "nil"    the nil interface
\*   "elem"   a T, e
\*   "slice"  a []T, elts
\*   "map"    a map[T]struct{} with the keys keys
\*   "Set"    a Set, s
\*   "keyer"  a Keyer whose Keys() returns elts
\*   "mapT"   a map[T]X, X not struct{}, with the keys keys
\*   "other"  a value of any other type (a float, a map with other keys)
Val(kind) == [kind |-> kind, e |-> Zero, elts |-> <<>>, keys |-> {}, s |-> Nil]
Vals0 ==
    {Val("nil"), Val("other")}
        \cup {[Val("elem") EXCEPT !.e = e] : e \in Elem}
        \cup {[Val(k) EXCEPT !.elts = q] : k \in {"slice", "keyer"}, q \in EltSeqs}
        \cup {[Val(k) EXCEPT !.keys = K] : k \in {"map", "mapT"}, K \in SUBSET Elem}
ValArgs(st, S) == Vals0 \cup {[Val("Set") EXCEPT !.s = x] : x \in S}

\* for _, key := range t { result.Add(key) }
RECURSIVE AddKeys(_, _, _)
AddKeys(st, out, elts) ==
    IF elts = <<>> THEN [st |-> st, v |-> out]
    ELSE CHOOSE res \in {AddKeys(r.st, r.v, Tail(elts))
                            : r \in {Add(st, out, <<Head(elts)>>)}} : TRUE

\* FromKeys building every result with New.
FromKeysNew(st, v) ==
    CASE v.kind = "elem" -> New(st, <<v.e>>)
      [] v.kind \in {"slice", "keyer"} -> New(st, v.elts)
      [] v.kind \in {"map", "mapT"} -> AddEach(st, Nil, v.keys, Ident)
      [] v.kind = "Set" -> AddEach(st, Nil, Members(st, v.s), Ident)
      [] OTHER -> [st |-> st, v |-> Nil]

\* func FromKeys(v interface{}) Set.  A Set is not of the type map[T]struct{}
\* of the third case and has no Keys method: like a map[T]X it is read through
\* reflection (m.MapKeys()).
FromKeys(st, v) ==
    CASE v.kind = "elem" -> New(st, <<v.e>>)
      [] v.kind = "slice" -> AddKeys(st, Nil, v.elts)
      [] v.kind = "map" -> AddEach(st, Nil, v.keys, Ident)
      [] v.kind = "keyer" -> AddKeys(st, Nil, v.elts)
      [] v.kind = "nil" -> [st |-> st, v |-> Nil]
      [] v.kind = "Set" -> AddEach(st, Nil, Members(st, v.s), Ident)
      [] v.kind = "mapT" -> AddEach(st, Nil, v.keys, Ident)
      [] OTHER -> [st |-> st, v |-> Nil]

\* ------------------------------------------------------------- the client
\* The record of a call of op, before its operands and results are filled in.
Call(op) ==
    [op |-> op, recv |-> Nil, arg |-> Nil, elts |-> <<>>, f |-> NilPred, g |-> Ident,
     pre |-> heap, post |-> heap, res |-> Nil, res2 |-> Nil,
     ret |-> FALSE, n |-> 0, e |-> Zero, seq |-> <<>>,
     callee |-> op, gnil |-> FALSE, val |-> Val("nil")]

\* The record of a call of op that panicked: it has no results.
Panic(op) == [Call("panic") EXCEPT !.callee = op]

\* No call is in progress: the client is between two statements.
NoCall == [Call("none") EXCEPT !.pre = <<>>, !.post = <<>>]

\* The client is about to execute a statement.
Ready == last.op = "none"

\* The variables after a call: rg the client's variables, st the store the call
\* left, l the record of the call.
Commit(rg, st, l) ==
    \E c \in {Collect(st, rg)} :
        /\ reg' = c.reg
        /\ heap' = c.heap
        /\ last' = l
        /\ gen' = gen

\* No run of makeset: the client program only uses the generated package.
NoRun == [pc |-> "none"]

Init ==
    /\ reg = [r \in Reg |-> Nil]
    /\ heap = <<>>
    /\ last = NoCall
    /\ gen = NoRun

\* The client has looked at the results of the call and goes on to its next
\* statement.
Return ==
    /\ ~Ready
    /\ last.op # "panic"      \* a panic ends the program
    /\ last' = NoCall
    /\ UNCHANGED <<reg, heap, gen>>

\* d = x.Op(...): the client keeps the result of a pure operation in c, and the
\* first result of Partition in b.
Dst == {"c"}
Dst2 == {"b"}

\* var d Set
CallVar ==
    /\ Ready
    /\ \E d \in Reg :
        Commit([reg EXCEPT ![d] = Nil], heap, Call("var"))

\* d = New(elts...)
CallNew ==
    /\ Ready
    /\ \E d \in Reg, elts \in EltSeqs :
        \E r \in {New(heap, elts)} :
            Commit([reg EXCEPT ![d] = r.v], r.st,
                   [Call("New") EXCEPT !.elts = elts,
                                    !.post = r.st,
                                    !.res = r.v])

\* d = NewSize(n)
CallNewSize ==
    /\ Ready
    /\ \E d \in Dst, n \in Sizes :
        \E r \in NewSize(heap, n) :
            IF r.panic
            THEN Commit(reg, heap, [Panic("NewSize") EXCEPT !.n = n])
            ELSE Commit([reg EXCEPT ![d] = r.v], r.st,
                        [Call("NewSize") EXCEPT !.n = n,
                                                !.post = r.st,
                                                !.res = r.v])

\* d = FromKeys(v)
CallFromKeys ==
    /\ Ready
    /\ \E d \in Dst, v \in ValArgs(heap, {reg[x] : x \in Reg}) :
        \E r \in {FromKeys(heap, v)} :
            Commit([reg EXCEPT ![d] = r.v], r.st,
                   [Call("FromKeys") EXCEPT !.val = v,
                                            !.post = r.st,
                                            !.res = r.v])

\* x.Len()
CallLen ==
    /\ Ready
    /\ \E x \in Reg :
        Commit(reg, heap,
               [Call("Len") EXCEPT !.recv = reg[x],
                                !.n = SetLen(heap, reg[x])])

\* x.Empty()
CallEmpty ==
    /\ Ready
    /\ \E x \in Reg :
        Commit(reg, heap,
               [Call("Empty") EXCEPT !.recv = reg[x],
                                  !.ret = Empty(heap, reg[x])])

\* x.Unordered()
CallUnordered ==
    /\ Ready
    /\ \E x \in Reg :
        \E u \in Unordered(heap, reg[x]) :
            Commit(reg, heap,
                   [Call("Unordered") EXCEPT !.recv = reg[x],
                                          !.seq = u])

\* x.Elements()
CallElements ==
    /\ Ready
    /\ \E x \in Reg :
        \E u \in Elements(heap, reg[x]) :
            Commit(reg, heap,
                   [Call("Elements") EXCEPT !.recv = reg[x],
                                         !.seq = u])

\* x.Contains(elts...)
CallContains ==
    /\ Ready
    /\ \E x \in Reg, elts \in EltSeqs :
        Commit(reg, heap,
               [Call("Contains") EXCEPT !.recv = reg[x],
                                     !.elts = elts,
                                     !.ret = Contains(heap, reg[x], elts)])

\* x.ContainsAny(elts...)
CallContainsAny ==
    /\ Ready
    /\ \E x \in Reg, elts \in EltSeqs :
        Commit(reg, heap,
               [Call("ContainsAny") EXCEPT !.recv = reg[x],
                                        !.elts = elts,
                                        !.ret = ContainsAny(heap, reg[x], elts)])

\* x.IsSubset(y)
CallIsSubset ==
    /\ Ready
    /\ \E x, y \in Reg :
        Commit(reg, heap,
               [Call("IsSubset") EXCEPT !.recv = reg[x],
                                     !.arg = reg[y],
                                     !.ret = IsSubset(heap, reg[x], reg[y])])

\* x.Equals(y)
CallEquals ==
    /\ Ready
    /\ \E x, y \in Reg :
        Commit(reg, heap,
               [Call("Equals") EXCEPT !.recv = reg[x],
                                   !.arg = reg[y],
                                   !.ret = Equals(heap, reg[x], reg[y])])

\* x.Intersects(y)
CallIntersects ==
    /\ Ready
    /\ \E x, y \in Reg :
        Commit(reg, heap,
               [Call("Intersects") EXCEPT !.recv = reg[x],
                                       !.arg = reg[y],
                                       !.ret = Intersects(heap, reg[x], reg[y])])

\* d = x.Clone()
CallClone ==
    /\ Ready
    /\ \E d \in Dst, x \in Reg :
        \E r \in {Clone(heap, reg[x])} :
            Commit([reg EXCEPT ![d] = r.v], r.st,
                   [Call("Clone") EXCEPT !.recv = reg[x],
                                      !.post = r.st,
                                      !.res = r.v])

\* d = x.Union(y)
CallUnion ==
    /\ Ready
    /\ \E d \in Dst, x, y \in Reg :
        \E r \in {Union(heap, reg[x], reg[y])} :
            Commit([reg EXCEPT ![d] = r.v], r.st,
                   [Call("Union") EXCEPT !.recv = reg[x],
                                      !.arg = reg[y],
                                      !.post = r.st,
                                      !.res = r.v])

\* d = x.Intersect(y)
CallIntersect ==
    /\ Ready
    /\ \E d \in Dst, x, y \in Reg :
        \E r \in {Intersect(heap, reg[x], reg[y])} :
            Commit([reg EXCEPT ![d] = r.v], r.st,
                   [Call("Intersect") EXCEPT !.recv = reg[x],
                                          !.arg = reg[y],
                                          !.post = r.st,
                                          !.res = r.v])

\* d = x.Diff(y)
CallDiff ==
    /\ Ready
    /\ \E d \in Dst, x, y \in Reg :
        \E r \in {Diff(heap, reg[x], reg[y])} :
            Commit([reg EXCEPT ![d] = r.v], r.st,
                   [Call("Diff") EXCEPT !.recv = reg[x],
                                     !.arg = reg[y],
                                     !.post = r.st,
                                     !.res = r.v])

\* d = x.SymDiff(y)
CallSymDiff ==
    /\ Ready
    /\ \E d \in Dst, x, y \in Reg :
        \E r \in {SymDiff(heap, reg[x], reg[y])} :
            Commit([reg EXCEPT ![d] = r.v], r.st,
                   [Call("SymDiff") EXCEPT !.recv = reg[x],
                                        !.arg = reg[y],
                                        !.post = r.st,
                                        !.res = r.v])

\* x.Update(y): the receiver is &x
CallUpdate ==
    /\ Ready
    /\ \E x, y \in Reg :
        \E r \in {Update(heap, reg[x], reg[y])} :
            IF r.v = Nil /\ Members(heap, reg[y]) # {}    \* assignment to entry in nil map
            THEN Commit(reg, heap, [Panic("Update") EXCEPT !.recv = reg[x], !.arg = reg[y]])
            ELSE
            Commit([reg EXCEPT ![x] = r.v], r.st,
                   [Call("Update") EXCEPT !.recv = reg[x],
                                       !.arg = reg[y],
                                       !.post = r.st,
                                       !.res = r.v,
                                       !.ret = r.ret])

\* x.Add(elts...): the receiver is &x
CallAdd ==
    /\ Ready
    /\ \E x \in Reg, elts \in EltSeqs :
        \E r \in {Add(heap, reg[x], elts)} :
            IF r.v = Nil /\ elts # <<>>                   \* assignment to entry in nil map
            THEN Commit(reg, heap, [Panic("Add") EXCEPT !.recv = reg[x], !.elts = elts])
            ELSE
            Commit([reg EXCEPT ![x] = r.v], r.st,
                   [Call("Add") EXCEPT !.recv = reg[x],
                                    !.elts = elts,
                                    !.post = r.st,
                                    !.res = r.v,
                                    !.ret = r.ret])

\* x.Remove(y)
CallRemove ==
    /\ Ready
    /\ \E x, y \in Reg :
        \E r \in {Remove(heap, reg[x], reg[y])} :
            Commit(reg, r.st,
                   [Call("Remove") EXCEPT !.recv = reg[x],
                                       !.arg = reg[y],
                                       !.post = r.st,
                                       !.res = reg[x],
                                       !.ret = r.ret])

\* x.Discard(elts...)
CallDiscard ==
    /\ Ready
    /\ \E x \in Reg, elts \in EltSeqs :
        \E r \in {Discard(heap, reg[x], elts)} :
            Commit(reg, r.st,
                   [Call("Discard") EXCEPT !.recv = reg[x],
                                        !.elts = elts,
                                        !.post = r.st,
                                        !.res = reg[x],
                                        !.ret = r.ret])

\* d = x.Map(g)
CallMap ==
    /\ Ready
    /\ \E d \in Dst, x \in Reg, g \in FuncArgs :
        IF CallsNil(heap, reg[x], g)
        THEN Commit(reg, heap, [Panic("Map") EXCEPT !.recv = reg[x], !.gnil = TRUE])
        ELSE
        \E r \in {Map(heap, reg[x], g.fn)} :
            Commit([reg EXCEPT ![d] = r.v], r.st,
                   [Call("Map") EXCEPT !.recv = reg[x],
                                    !.g = g.fn,
                                    !.gnil = g.nil,
                                    !.post = r.st,
                                    !.res = r.v])

\* d = x.Select(f)
CallSelect ==
    /\ Ready
    /\ \E d \in Dst, x \in Reg, f \in PredArgs :
        IF CallsNil(heap, reg[x], f)
        THEN Commit(reg, heap, [Panic("Select") EXCEPT !.recv = reg[x], !.gnil = TRUE])
        ELSE
        \E r \in {Select(heap, reg[x], f)} :
            Commit([reg EXCEPT ![d] = r.v], r.st,
                   [Call("Select") EXCEPT !.recv = reg[x],
                                       !.f = f,
                                       !.post = r.st,
                                       !.res = r.v])

\* d, d2 = x.Partition(f)
CallPartition ==
    /\ Ready
    /\ \E d \in Dst2, d2 \in Dst, x \in Reg, f \in PredArgs :
        IF CallsNil(heap, reg[x], f)
        THEN Commit(reg, heap, [Panic("Partition") EXCEPT !.recv = reg[x], !.gnil = TRUE])
        ELSE
        \E r \in {Partition(heap, reg[x], f)} :
            Commit([reg EXCEPT ![d] = r.yes, ![d2] = r.no], r.st,
                   [Call("Partition") EXCEPT !.recv = reg[x],
                                          !.f = f,
                                          !.post = r.st,
                                          !.res = r.yes,
                                          !.res2 = r.no])

\* x.Choose(f)
CallChoose ==
    /\ Ready
    /\ \E x \in Reg, f \in PredArgs :
        \E c \in Choose(heap, reg[x], f) :
            Commit(reg, heap,
                   [Call("Choose") EXCEPT !.recv = reg[x],
                                       !.f = f,
                                       !.e = c.e,
                                       !.ret = c.ok])

\* x.Pop(f)
CallPop ==
    /\ Ready
    /\ \E x \in Reg, f \in PredArgs :
        \E c \in Pop(heap, reg[x], f) :
            Commit(reg, c.st,
                   [Call("Pop") EXCEPT !.recv = reg[x],
                                    !.f = f,
                                    !.post = c.st,
                                    !.res = reg[x],
                                    !.e = c.e,
                                    !.ret = c.ok])

\* x.Count(f)
CallCount ==
    /\ Ready
    /\ \E x \in Reg, f \in PredArgs :
        IF CallsNil(heap, reg[x], f)
        THEN Commit(reg, heap, [Panic("Count") EXCEPT !.recv = reg[x], !.gnil = TRUE])
        ELSE
        Commit(reg, heap,
               [Call("Count") EXCEPT !.recv = reg[x],
                                  !.f = f,
                                  !.n = Count(heap, reg[x], f)])

\* x.Each(f)
CallEach ==
    /\ Ready
    /\ \E x \in Reg, g \in {NilFunc, Func(Ident)} :
        IF CallsNil(heap, reg[x], g)
        THEN Commit(reg, heap, [Panic("Each") EXCEPT !.recv = reg[x], !.gnil = TRUE])
        ELSE
        \E u \in Each(heap, reg[x]) :
            Commit(reg, heap,
                   [Call("Each") EXCEPT !.recv = reg[x],
                                     !.gnil = g.nil,
                                     !.seq = u])

Next ==
    \/ CallVar
    \/ CallNew
    \/ CallNewSize
    \/ CallFromKeys
    \/ CallLen
    \/ CallEmpty
    \/ CallUnordered
    \/ CallElements
    \/ CallContains
    \/ CallContainsAny
    \/ CallIsSubset
    \/ CallEquals
    \/ CallIntersects
    \/ CallClone
    \/ CallUnion
    \/ CallIntersect
    \/ CallDiff
    \/ CallSymDiff
    \/ CallUpdate
    \/ CallAdd
    \/ CallRemove
    \/ CallDiscard
    \/ CallMap
    \/ CallSelect
    \/ CallPartition
    \/ CallChoose
    \/ CallPop
    \/ CallCount
    \/ CallEach
    \/ Return

Spec == Init /\ [][Next]_vars

\* ------------------------------------------------------------- makeset
\* A package path is a string, kept as the sequence of its letters (a = 1 ..
\* z = 26) so that sort.Strings can compare it.
PkgFmt == <<6, 13, 20>>                         \* "fmt"
PkgOs == <<15, 19>>                             \* "os"
PkgReflect == <<18, 5, 6, 12, 5, 3, 20>>        \* "reflect"
PkgSort == <<19, 15, 18, 20>>                   \* "sort"
PkgStrings == <<19, 20, 18, 9, 14, 7, 19>>      \* "strings"

\* baseImports = []string{"reflect", "sort", "strings"}
baseImports == <<PkgReflect, PkgSort, PkgStrings>>

\* The packages a configuration names in imports and testImports.
Pkgs == {PkgFmt, PkgOs}
ImportSeqs == UNION {[1 .. n -> Pkgs] : n \in 0 .. MaxImports}
\* The numbers of testValues of a configuration.
TestLens == {0, 1, 9, 10, 11}

\* type Config struct: the fields the run reads.  TestValues is kept as its
\* length; "" is the empty string of an omitted field.
Configs ==
    [Package : {"", "intset"}, Type : {"", "int"}, Zero : {"", "0"},
     ToString : {"", "return strconv.Itoa(x)"},
     Imports : ImportSeqs, TestImports : ImportSeqs, TestValues : TestLens]

\* The values of the -output flag.
OutDirs == {"", "out"}

\* s < t for two strings: the order of sort.Strings.
RECURSIVE StrLess(_, _)
StrLess(s, t) ==
    IF t = <<>> THEN FALSE
    ELSE IF s = <<>> THEN TRUE
    ELSE IF Head(s) # Head(t) THEN Head(s) < Head(t)
    ELSE StrLess(Tail(s), Tail(t))

RECURSIVE InsertString(_, _)
InsertString(srt, e) ==
    IF srt = <<>> THEN <<e>>
    ELSE IF StrLess(e, Head(srt)) THEN <<e>> \o srt
    ELSE <<Head(srt)>> \o InsertString(Tail(srt), e)

\* sort.Strings(q)
RECURSIVE SortStrings(_)
SortStrings(q) ==
    IF q = <<>> THEN <<>> ELSE InsertString(SortStrings(Tail(q)), Head(q))

\* validate without the test of the zero value.
validateNoZero(c) ==
    IF c.Package = "" THEN "invalid: missing package name"
    ELSE IF c.Type = "" THEN "invalid: missing type name"
    ELSE "nil"

\* func (c *Config) validate() error: the error, "nil" for none.
validate(c) ==
    IF c.Package = "" THEN "invalid: missing package name"
    ELSE IF c.Type = "" THEN "invalid: missing type name"
    ELSE IF c.Zero = "" THEN "invalid: missing zero value"
    ELSE "nil"

\* The keys of imps with "fmt" added whatever ToString is.
importSetAlwaysFmt(c) == Range(baseImports) \cup Range(c.Imports) \cup {PkgFmt}

\* readConfig: the keys of the map imps.
importSet(c) ==
    Range(baseImports) \cup Range(c.Imports)
        \cup (IF c.ToString = "" THEN {PkgFmt} ELSE {})

\* readConfig: c.Imports after the range over imps, which produces the keys in
\* any order, and sort.Strings: the possible results.
resolveImports(c) == {SortStrings(p) : p \in Perms(importSet(c))}

\* The test file written under the name of the implementation file.
testPathAsMain(dir, c) == <<dir, c.Package, ".go">>

\* filepath.Join(*outDir, conf.Package+".go")
mainPath(dir, c) == <<dir, c.Package, ".go">>

\* filepath.Join(*outDir, conf.Package+"_test.go")
testPath(dir, c) == <<dir, c.Package, "_test.go">>

\* t.Execute(&buf, c): the text of the template, as far as the fields of c that
\* these templates print decide it; the imports are printed in the order of the
\* list they range over.
Execute(t, c) ==
    [template |-> t, Package |-> c.Package, Type |-> c.Type, Zero |-> c.Zero,
     ToString |-> c.ToString,
     imports |-> IF t = "main" THEN c.Imports ELSE c.TestImports,
     TestValues |-> IF t = "main" THEN 0 ELSE c.TestValues]

\* Adjacent equal entries of a sorted list removed.
RECURSIVE Uniq(_)
Uniq(q) ==
    IF Len(q) < 2 THEN q
    ELSE IF q[1] = q[2] THEN Uniq(Tail(q))
    ELSE <<q[1]>> \o Uniq(Tail(q))

\* format.Source(src) on a complete source file: gofmt's layout, which sorts
\* the import specs of a block and removes the repeated ones (ast.SortImports).
FormatSource(text) == [text EXCEPT !.imports = Uniq(SortStrings(@))]

\* The state of a run of makeset with the flag -output dir and the
\* configuration raw on its input, before main starts.
\*   pc      the statement of main to execute next
\*   conf    the *Config readConfig returned
\*   dirs    the directories the run has created
\*   files   the files the run has written: path, text, and whether ioutil.
\*           WriteFile wrote the whole text
\*   err     the message of log.Fatal, "" while there is none
Run(dir, raw) ==
    [pc |-> "flags", outDir |-> dir, raw |-> raw, conf |-> raw, dirs |-> {},
     files |-> {}, err |-> ""]

\* log.Fatal(msg): the run ends with exit status 1.
Fatal(g, msg) == [g EXCEPT !.pc = "exit", !.err = msg]

GenInit ==
    /\ reg = [r \in Reg |-> Nil]
    /\ heap = <<>>
    /\ last = NoCall
    /\ gen \in {Run(dir, raw) : dir \in OutDirs, raw \in Configs}

\* main: flag.Parse(); if *outDir == "" { log.Fatal(...) }
ParseFlags ==
    /\ gen.pc = "flags"
    /\ gen' = IF gen.outDir = "" THEN Fatal(gen, "You must specify a non-empty -output directory")
              ELSE [gen EXCEPT !.pc = "readConfig"]
    /\ UNCHANGED <<reg, heap, last>>

\* main: conf, err := readConfig(*configPath).  Reading and json.Unmarshal may
\* fail; otherwise the imports are resolved and the configuration validated.
ReadConfig ==
    /\ gen.pc = "readConfig"
    /\ \/ gen' = Fatal(gen, "Error loading configuration: read or unmarshal")
       \/ \E imps \in resolveImports(gen.raw) :
             \E c \in {[gen.raw EXCEPT !.Imports = imps]} :
                gen' = IF validate(c) # "nil"
                       THEN Fatal(gen, "Error loading configuration: invalid")
                       ELSE [gen EXCEPT !.pc = "testValues", !.conf = c]
    /\ UNCHANGED <<reg, heap, last>>

\* main: if len(conf.TestValues) > 0 && len(conf.TestValues) != 10 { log.Fatalf }
CheckTestValues ==
    /\ gen.pc = "testValues"
    /\ gen' = IF gen.conf.TestValues > 0 /\ gen.conf.TestValues # 10
              THEN Fatal(gen, "Wrong number of test values")
              ELSE [gen EXCEPT !.pc = "MkdirAll"]
    /\ UNCHANGED <<reg, heap, last>>

\* main: os.MkdirAll(*outDir, 0755), which may fail.
MkdirAll ==
    /\ gen.pc = "MkdirAll"
    /\ \/ gen' = Fatal(gen, "Unable to create output directory")
       \/ gen' = [gen EXCEPT !.pc = "generate main", !.dirs = @ \cup {gen.outDir}]
    /\ UNCHANGED <<reg, heap, last>>

\* func generate(t, c, path) error on the run g, then what main does with the
\* error: the possible states.  Execute and format.Source may fail, before
\* anything is written; ioutil.WriteFile may fail before it has created the
\* file or after it has written a part of the text.
generate(g, t, path, next) ==
    LET src == FormatSource(Execute(t, g.conf))
        others == {f \in g.files : f.path # path}
    IN  {Fatal(g, "generating source"), Fatal(g, "formatting source"),
         Fatal(g, "write: file not created"),
         [Fatal(g, "write: short write") EXCEPT
             !.files = others \cup {[path |-> path, text |-> src, whole |-> FALSE]}],
         [g EXCEPT !.pc = next,
                   !.files = others \cup {[path |-> path, text |-> src, whole |-> TRUE]}]}

\* main: generate(mainT, conf, mainPath)
GenerateMain ==
    /\ gen.pc = "generate main"
    /\ gen' \in generate(gen, "main", mainPath(gen.outDir, gen.conf),
                         IF gen.conf.TestValues # 0 THEN "generate test" ELSE "done")
    /\ UNCHANGED <<reg, heap, last>>

\* main: if len(conf.TestValues) != 0 { generate(testT, conf, testPath) }
GenerateTest ==
    /\ gen.pc = "generate test"
    /\ gen' \in generate(gen, "test", testPath(gen.outDir, gen.conf), "done")
    /\ UNCHANGED <<reg, heap, last>>

GenNext ==
    \/ ParseFlags
    \/ ReadConfig
    \/ CheckTestValues
    \/ MkdirAll
    \/ GenerateMain
    \/ GenerateTest

GenSpec == GenInit /\ [][GenNext]_vars

\* ------------------------------------------------------------- properties

\* The Set values of a store.
Vals(st) == {Nil} \cup (1 .. Len(st))

MutatingOps == {"Add", "Update", "Discard", "Remove"}
QueryOps == {"Len", "Empty", "Contains", "ContainsAny", "IsSubset", "Equals",
             "Intersects", "Elements", "Unordered", "Choose"}
PureOps == {"Union", "Intersect", "Diff", "SymDiff", "Clone", "Map", "Select",
            "Partition", "Count"}

\* No Add, Discard, Remove or Pop applied to r changes the membership of o.
Independent(st, r, o) ==
    /\ \A ss \in EltSeqs : Members(Add(st, r, ss).st, o) = Members(st, o)
    /\ \A ss \in EltSeqs : Members(Discard(st, r, ss).st, o) = Members(st, o)
    /\ \A t \in Vals(st) : Members(Remove(st, r, t).st, o) = Members(st, o)
    /\ \A f \in PredArgs : \A c \in Pop(st, r, f) : Members(c.st, o) = Members(st, o)

\* C1: Add, Update, Discard and Remove return true exactly when the membership
\* of the receiver after the call differs from its membership before the call,
\* for every receiver and every argument.
C1_ChangeReported ==
    last.op \in MutatingOps =>
        (last.ret <=> Members(last.post, last.res) # Members(last.pre, last.recv))

\* Add of a repeated element to an unset receiver has reported a change.
C1_Witness ==
    /\ last.op = "Add"
    /\ last.recv = Nil
    /\ Len(last.elts) = 2
    /\ last.elts[1] = last.elts[2]
    /\ last.ret

\* C2: whenever the result of Intersect or Diff has no elements, the value
\* returned is nil and never an allocated empty map.
C2_EmptyResultIsNil ==
    (last.op \in {"Intersect", "Diff"} /\ Members(last.post, last.res) = {}) =>
        last.res = Nil

\* C3: the set returned by Union, Intersect or Diff is independent of both
\* operands (a later Add, Discard, Remove or Pop of the result changes neither),
\* except for an operand returned because the other operand is empty.
C3_ResultIndependent ==
    last.op \in {"Union", "Intersect", "Diff"} =>
        /\ Independent(last.post, last.res, last.recv) \/ Empty(last.pre, last.arg)
        /\ Independent(last.post, last.res, last.arg) \/ Empty(last.pre, last.recv)

\* C4: no read-only query and no pure operation changes the membership of its
\* receiver or of its argument, nor of any other set that exists.
C4_NoMutation ==
    last.op \in QueryOps \cup PureOps =>
        /\ Members(last.post, last.recv) = Members(last.pre, last.recv)
        /\ Members(last.post, last.arg) = Members(last.pre, last.arg)
        /\ \A a \in 1 .. Len(last.pre) : last.post[a] = last.pre[a]

\* Diff of two non-empty sets held in different maps has built a non-empty result.
C4_Witness ==
    /\ last.op = "Diff"
    /\ last.recv # Nil /\ last.arg # Nil /\ last.recv # last.arg
    /\ Members(last.pre, last.arg) # {}
    /\ last.res # Nil

\* The operations of C5 with a set argument.
BinaryReadOps == {"IsSubset", "Equals", "Intersects", "Union", "Intersect", "Diff",
                  "SymDiff"}
ReadOps == {"Len", "Empty", "Contains", "ContainsAny", "Elements", "Unordered"}
               \cup BinaryReadOps

\* What a caller can observe of s.op(...) in store st: the possible values of
\* the boolean, the count or the sequence returned, or the membership of the
\* set returned.
Obs(op, st, s, s2, elts) ==
    CASE op = "Len" -> {SetLen(st, s)}
      [] op = "Empty" -> {Empty(st, s)}
      [] op = "Contains" -> {Contains(st, s, elts)}
      [] op = "ContainsAny" -> {ContainsAny(st, s, elts)}
      [] op = "IsSubset" -> {IsSubset(st, s, s2)}
      [] op = "Equals" -> {Equals(st, s, s2)}
      [] op = "Intersects" -> {Intersects(st, s, s2)}
      [] op = "Elements" -> Elements(st, s)
      [] op = "Unordered" -> Unordered(st, s)
      [] op = "Union" -> {Members(r.st, r.v) : r \in {Union(st, s, s2)}}
      [] op = "Intersect" -> {Members(r.st, r.v) : r \in {Intersect(st, s, s2)}}
      [] op = "Diff" -> {Members(r.st, r.v) : r \in {Diff(st, s, s2)}}
      [] op = "SymDiff" -> {Members(r.st, r.v) : r \in {SymDiff(st, s, s2)}}

\* What the caller of the last call observed.
Observed ==
    CASE last.op = "Len" -> last.n
      [] last.op \in {"Elements", "Unordered"} -> last.seq
      [] last.op \in {"Union", "Intersect", "Diff", "SymDiff"} ->
            Members(last.post, last.res)
      [] OTHER -> last.ret

\* The other representation of the empty set v: nil for an allocated empty map,
\* a newly allocated empty map for nil.
OtherEmpty(st, v) == IF v = Nil THEN Make(st) ELSE [st |-> st, v |-> Nil]

\* C5: an unset Set and an allocated empty Set are equivalent for every read
\* operation: with one put in place of the other as the receiver or as the
\* argument the call gives the same boolean, count or sequence, or a set of the
\* same membership.
C5_NilEquivalentToEmpty ==
    last.op \in ReadOps =>
        /\ Empty(last.pre, last.recv) =>
             \E o \in {OtherEmpty(last.pre, last.recv)} :
                /\ Obs(last.op, o.st, o.v, last.arg, last.elts)
                     = Obs(last.op, last.pre, last.recv, last.arg, last.elts)
                /\ Observed \in Obs(last.op, o.st, o.v, last.arg, last.elts)
        /\ (last.op \in BinaryReadOps /\ Empty(last.pre, last.arg)) =>
             \E o \in {OtherEmpty(last.pre, last.arg)} :
                /\ Obs(last.op, o.st, last.recv, o.v, last.elts)
                     = Obs(last.op, last.pre, last.recv, last.arg, last.elts)
                /\ Observed \in Obs(last.op, o.st, last.recv, o.v, last.elts)

\* An allocated empty set has been found equal to the unset set.
C5_Witness ==
    /\ last.op = "Equals"
    /\ last.recv # Nil
    /\ Members(last.pre, last.recv) = {}
    /\ last.arg = Nil
    /\ last.ret

C7_Uniqueness ==
    /\ last.op = "New" =>
          /\ Members(last.post, last.res) = Range(last.elts)
          /\ SetLen(last.post, last.res) = Cardinality(Range(last.elts))
    /\ last.op \in {"New", "Add", "Update", "Discard", "Remove", "Pop"} =>
          /\ Empty(last.post, last.res) <=> SetLen(last.post, last.res) = 0
          /\ \A u \in Elements(last.post, last.res) \cup Unordered(last.post, last.res) :
                /\ Len(u) = SetLen(last.post, last.res)
                /\ \A i, j \in 1 .. Len(u) : i # j => u[i] # u[j]
                /\ Range(u) = Members(last.post, last.res)

\* New has been given the same element twice.
C7_Witness ==
    /\ last.op = "New"
    /\ Len(last.elts) = 2
    /\ last.elts[1] = last.elts[2]
    /\ SetLen(last.post, last.res) = 1

\* C8: Clone of an empty set, unset or allocated, returns nil and allocates no map.
C8_CloneEmptyIsNil ==
    (last.op = "Clone" /\ Empty(last.pre, last.recv)) =>
        /\ last.res = Nil
        /\ last.post = last.pre

\* An allocated empty set has been cloned.
C8_Witness ==
    /\ last.op = "Clone"
    /\ last.recv # Nil
    /\ Members(last.pre, last.recv) = {}

\* The clone of the last call, after Remove(b) then Update(b) on it, equals
\* the receiver again and the receiver has not changed.
C9_RoundTrip(b) ==
    \E r \in {Remove(last.post, last.res, b)} :
       \E u \in {Update(r.st, last.res, b)} :
          /\ Equals(u.st, u.v, last.recv)
          /\ Members(u.st, u.v) = Members(last.pre, last.recv)
          /\ Members(u.st, last.recv) = Members(last.pre, last.recv)

\* C9 as stated: Clone returns a set with the membership of the receiver that
\* shares no storage with it: no mutation of the clone changes the receiver
\* and none of the receiver changes the clone; and for every set b that is a
\* subset of the receiver, Remove(b) then Update(b) on the clone makes it equal
\* to the receiver again.
C9_CloneRoundTripAnySubset ==
    last.op = "Clone" =>
        /\ Members(last.post, last.res) = Members(last.pre, last.recv)
        /\ Independent(last.post, last.res, last.recv)
        /\ Independent(last.post, last.recv, last.res)
        /\ \A b \in Vals(last.post) :
              Members(last.post, b) \subseteq Members(last.post, last.recv) =>
                 C9_RoundTrip(b)

\* C9 amended: as above, for every subset b of the receiver that is not the
\* clone's own map (c.Remove(c) empties c, and c.Update(c) then adds nothing).
C9_CloneIndependent ==
    last.op = "Clone" =>
        /\ Members(last.post, last.res) = Members(last.pre, last.recv)
        /\ Independent(last.post, last.res, last.recv)
        /\ Independent(last.post, last.recv, last.res)
        /\ \A b \in Vals(last.post) :
              (/\ Members(last.post, b) \subseteq Members(last.post, last.recv)
               /\ (b = Nil \/ b # last.res)) =>
                 C9_RoundTrip(b)

\* A set of two elements has been cloned while a non-empty proper subset of it
\* exists.
C9_Witness ==
    /\ last.op = "Clone"
    /\ SetLen(last.pre, last.recv) = 2
    /\ last.res # Nil
    /\ \E b \in Vals(last.post) \ {last.res} : SetLen(last.post, b) = 1

\* C10: for every set a and the empty set in either representation, Union(a,
\* empty) and Union(empty, a) have the membership of a, Intersect(a, empty) and
\* Intersect(empty, a) are empty, Diff(a, empty) has the membership of a, and
\* Diff(empty, a) is empty.
C10_EmptySetAlgebra ==
    /\ (last.op = "Union" /\ Empty(last.pre, last.arg)) =>
          Members(last.post, last.res) = Members(last.pre, last.recv)
    /\ (last.op = "Union" /\ Empty(last.pre, last.recv)) =>
          Members(last.post, last.res) = Members(last.pre, last.arg)
    /\ (last.op = "Intersect" /\ (Empty(last.pre, last.arg) \/ Empty(last.pre, last.recv))) =>
          Members(last.post, last.res) = {}
    /\ (last.op = "Diff" /\ Empty(last.pre, last.arg)) =>
          Members(last.post, last.res) = Members(last.pre, last.recv)
    /\ (last.op = "Diff" /\ Empty(last.pre, last.recv)) =>
          Members(last.post, last.res) = {}

\* The union of an allocated empty set with a non-empty set has been taken.
C10_Witness ==
    /\ last.op = "Union"
    /\ last.recv # Nil
    /\ Members(last.pre, last.recv) = {}
    /\ Members(last.pre, last.arg) # {}

\* C11: a.Equals(b) is true exactly when a.IsSubset(b) and b.IsSubset(a) are
\* both true; Equals is symmetric, and two empty sets are equal whether unset or
\* allocated.
C11_EqualsMutualSubset ==
    last.op = "Equals" =>
        /\ last.ret <=> (/\ IsSubset(last.pre, last.recv, last.arg)
                         /\ IsSubset(last.pre, last.arg, last.recv))
        /\ last.ret <=> Equals(last.pre, last.arg, last.recv)
        /\ (Empty(last.pre, last.recv) /\ Empty(last.pre, last.arg)) => last.ret

\* A non-empty set has been compared with a proper superset of it.
C11_Witness ==
    /\ last.op = "Equals"
    /\ Members(last.pre, last.recv) # {}
    /\ Members(last.pre, last.recv) \subseteq Members(last.pre, last.arg)
    /\ Members(last.pre, last.recv) # Members(last.pre, last.arg)
    /\ ~last.ret

\* C12: SymDiff(a, b) holds exactly the elements that belong to exactly one of
\* a and b, which is the membership of Diff(Union(a, b), Intersect(a, b)), and
\* SymDiff(b, a) equals it.
C12_SymDiffExactlyOne ==
    last.op = "SymDiff" =>
        /\ Members(last.post, last.res) =
              {k \in Elem : (k \in Members(last.pre, last.recv))
                              # (k \in Members(last.pre, last.arg))}
        /\ \E u \in {Union(last.pre, last.recv, last.arg)} :
              \E i \in {Intersect(u.st, last.recv, last.arg)} :
                 \E d \in {Diff(i.st, u.v, i.v)} :
                    Members(d.st, d.v) = Members(last.post, last.res)
        /\ \E r \in {SymDiff(last.post, last.arg, last.recv)} :
              /\ Members(r.st, r.v) = Members(last.post, last.res)
              /\ Equals(r.st, r.v, last.res)
              /\ Equals(r.st, last.res, r.v)

\* The symmetric difference of two different sets with a common element has
\* been taken.
C12_Witness ==
    /\ last.op = "SymDiff"
    /\ Members(last.pre, last.recv) \cap Members(last.pre, last.arg) # {}
    /\ Members(last.pre, last.arg) \ Members(last.pre, last.recv) # {}
    /\ Members(last.post, last.res) # {}

\* C13: Partition(f) returns (yes, no) with yes exactly the elements of the
\* receiver that satisfy f and no exactly those that do not: their union has
\* the membership of the receiver and they are disjoint.
C13_PartitionSplits ==
    last.op = "Partition" =>
        /\ Members(last.post, last.res) =
              {k \in Members(last.pre, last.recv) : k \in last.f.acc}
        /\ Members(last.post, last.res2) =
              {k \in Members(last.pre, last.recv) : k \notin last.f.acc}
        /\ Members(last.post, last.res) \cup Members(last.post, last.res2)
              = Members(last.pre, last.recv)
        /\ Members(last.post, last.res) \cap Members(last.post, last.res2) = {}
        /\ \E u \in {Union(last.post, last.res, last.res2)} :
              Equals(u.st, u.v, last.recv)
        /\ ~Intersects(last.post, last.res, last.res2)

\* A set has been split into two non-empty parts.
C13_Witness ==
    /\ last.op = "Partition"
    /\ Members(last.post, last.res) # {}
    /\ Members(last.post, last.res2) # {}

\* The members of s that the func(T) bool argument f lets Choose and Pop
\* return: all of them when f is nil.
Satisfying(st, s, f) ==
    IF f.nil THEN Members(st, s) ELSE {k \in Members(st, s) : k \in f.acc}

\* C14: if some member satisfies f (any member when f is nil) Pop(f) returns
\* (e, true) with e such a member, and the set is afterwards the previous set
\* without e, one shorter: what Choose then Discard of the element do; otherwise
\* it returns (zero, false) and the set is unchanged.
C14_PopRemovesChosen ==
    last.op = "Pop" =>
        IF Satisfying(last.pre, last.recv, last.f) # {}
        THEN /\ last.ret
             /\ last.e \in Satisfying(last.pre, last.recv, last.f)
             /\ Members(last.post, last.recv) = Members(last.pre, last.recv) \ {last.e}
             /\ SetLen(last.post, last.recv) = SetLen(last.pre, last.recv) - 1
             /\ [e |-> last.e, ok |-> TRUE] \in Choose(last.pre, last.recv, last.f)
             /\ last.post = Discard(last.pre, last.recv, <<last.e>>).st
        ELSE /\ ~last.ret
             /\ last.e = Zero
             /\ last.post = last.pre

\* Pop with a predicate has removed one of two members.
C14_Witness ==
    /\ last.op = "Pop"
    /\ ~last.f.nil
    /\ SetLen(last.pre, last.recv) = 2
    /\ last.ret
    /\ SetLen(last.post, last.recv) = 1

\* C15: Choose(f) returns (e, true), e a member satisfying f, exactly when
\* there is such a member, any member when f is nil; otherwise, also for an
\* unset or empty receiver and a nil f, it returns (zero, false); it removes
\* nothing.
C15_ChooseMember ==
    last.op = "Choose" =>
        /\ last.ret <=> Satisfying(last.pre, last.recv, last.f) # {}
        /\ last.ret => last.e \in Satisfying(last.pre, last.recv, last.f)
        /\ ~last.ret => last.e = Zero
        /\ (Empty(last.pre, last.recv) /\ last.f.nil) => (~last.ret /\ last.e = Zero)
        /\ last.post = last.pre
        /\ Members(last.post, last.recv) = Members(last.pre, last.recv)

\* Choose with a predicate that accepts one of two members has returned it.
C15_Witness ==
    /\ last.op = "Choose"
    /\ ~last.f.nil
    /\ SetLen(last.pre, last.recv) = 2
    /\ Cardinality(Satisfying(last.pre, last.recv, last.f)) = 1
    /\ last.ret

C17_ContainsAnyIntersects ==
    /\ last.op = "ContainsAny" =>
          /\ last.ret <=> Range(last.elts) \cap Members(last.pre, last.recv) # {}
          /\ last.elts = <<>> => ~last.ret
          /\ \E n \in {New(last.pre, last.elts)} :
                /\ last.ret = Intersects(n.st, last.recv, n.v)
                /\ last.ret = Intersects(n.st, n.v, last.recv)
                /\ \E i \in {Intersect(n.st, last.recv, n.v)} :
                      last.ret = ~Empty(i.st, i.v)
    /\ last.op = "Intersects" =>
          /\ last.ret <=>
                Members(last.pre, last.recv) \cap Members(last.pre, last.arg) # {}
          /\ last.ret = Intersects(last.pre, last.arg, last.recv)
          /\ \E i \in {Intersect(last.pre, last.recv, last.arg)} :
                last.ret = ~Empty(i.st, i.v)
          /\ \E i \in {Intersect(last.pre, last.arg, last.recv)} :
                last.ret = ~Empty(i.st, i.v)

\* ContainsAny has found the second of its arguments, the first being absent,
\* in a receiver smaller than the argument list.
C17_Witness ==
    /\ last.op = "ContainsAny"
    /\ Len(last.elts) = 2
    /\ last.elts[1] \notin Members(last.pre, last.recv)
    /\ last.elts[2] \in Members(last.pre, last.recv)
    /\ SetLen(last.pre, last.recv) < Cardinality(Range(last.elts))
    /\ last.ret

\* C18: a.IsSubset(b) is true exactly when every member of a is a member of b;
\* an empty a, unset or allocated, is a subset of every b, and a non-empty a is
\* no subset of an empty b.
C18_IsSubset ==
    last.op = "IsSubset" =>
        /\ last.ret <=>
              Members(last.pre, last.recv) \subseteq Members(last.pre, last.arg)
        /\ Empty(last.pre, last.recv) => last.ret
        /\ (~Empty(last.pre, last.recv) /\ Empty(last.pre, last.arg)) => ~last.ret

\* IsSubset has compared two sets of the same length, neither empty, that
\* differ.
C18_Witness ==
    /\ last.op = "IsSubset"
    /\ SetLen(last.pre, last.recv) = SetLen(last.pre, last.arg)
    /\ Members(last.pre, last.recv) # {}
    /\ Members(last.pre, last.recv) # Members(last.pre, last.arg)
    /\ ~last.ret

\* C19: Elements returns every member once, in strictly ascending order, the
\* same sequence whatever order the range over the map produces, and nothing
\* for an empty set; Unordered returns the same elements in some order.
C19_ElementsAscending ==
    /\ last.op = "Elements" =>
          /\ Len(last.seq) = SetLen(last.pre, last.recv)
          /\ Range(last.seq) = Members(last.pre, last.recv)
          /\ \A i \in 1 .. (Len(last.seq) - 1) : isLess(last.seq[i], last.seq[i + 1])
          /\ Empty(last.pre, last.recv) => last.seq = <<>>
          /\ Elements(last.pre, last.recv) = {last.seq}
          /\ \A u \in Unordered(last.pre, last.recv) :
                Range(u) = Range(last.seq) /\ Len(u) = Len(last.seq)
    /\ last.op = "Unordered" =>
          /\ Len(last.seq) = SetLen(last.pre, last.recv)
          /\ Range(last.seq) = Members(last.pre, last.recv)
          /\ Sort(last.seq) \in Elements(last.pre, last.recv)

\* Elements has returned the two members of a set.
C19_Witness ==
    /\ last.op = "Elements"
    /\ Len(last.seq) = 2
    /\ SetLen(last.pre, last.recv) = 2

\* C20: Map(f) returns exactly the set of f(x) for x in the receiver: it is no
\* longer than the receiver, shorter when f takes the same value on two
\* members, and empty when the receiver is empty.
C20_MapImage ==
    last.op = "Map" =>
        /\ Members(last.post, last.res) =
              {last.g[k] : k \in Members(last.pre, last.recv)}
        /\ SetLen(last.post, last.res) <= SetLen(last.pre, last.recv)
        /\ (\E x, y \in Members(last.pre, last.recv) : x # y /\ last.g[x] = last.g[y])
              => SetLen(last.post, last.res) < SetLen(last.pre, last.recv)
        /\ Empty(last.pre, last.recv) => Empty(last.post, last.res)

\* Map has taken two members to the same value.
C20_Witness ==
    /\ last.op = "Map"
    /\ SetLen(last.pre, last.recv) = 2
    /\ SetLen(last.post, last.res) = 1

\* C21: FromKeys(v) returns the set of v for an element v, of the distinct
\* elements of a sequence, of the keys of a mapping keyed by elements whatever
\* its values (a Set included), and of v.Keys() for a Keyer; for every other
\* shape, for nil and for an empty collection it returns the nil Set; it never
\* fails.
C21_FromKeys ==
    /\ last.op = "FromKeys" =>
          /\ last.val.kind = "elem" => Members(last.post, last.res) = {last.val.e}
          /\ last.val.kind \in {"slice", "keyer"} =>
                Members(last.post, last.res) = Range(last.val.elts)
          /\ last.val.kind \in {"map", "mapT"} =>
                Members(last.post, last.res) = last.val.keys
          /\ last.val.kind = "Set" =>
                Members(last.post, last.res) = Members(last.pre, last.val.s)
          /\ last.val.kind \in {"nil", "other"} => last.res = Nil
          /\ Members(last.post, last.res) = {} => last.res = Nil
          /\ \A a \in 1 .. Len(last.pre) : last.post[a] = last.pre[a]
    /\ last.op = "panic" => last.callee # "FromKeys"

\* FromKeys has been given an empty sequence.
C21_Witness ==
    /\ last.op = "FromKeys"
    /\ last.val.kind = "slice"
    /\ last.val.elts = <<>>

\* The set operands of the last call are unset or empty and it has no elements
\* among its arguments.
EmptyOperands ==
    /\ Empty(last.pre, last.recv)
    /\ Empty(last.pre, last.arg)
    /\ last.elts = <<>>

\* No call with unset or empty operands fails, and Discard and Remove on an unset
\* or empty receiver return false and leave it as it was.
NoFailureOnEmpty ==
    /\ (last.op = "panic" /\ last.callee # "NewSize") => ~EmptyOperands
    /\ (last.op \in {"Discard", "Remove"} /\ Empty(last.pre, last.recv)) =>
          /\ ~last.ret
          /\ last.post = last.pre
          /\ last.res = last.recv

C23_AllocatesOnFirstMutation ==
    /\ (last.op = "Add" /\ last.recv = Nil) =>
          /\ last.res = Len(last.pre) + 1
          /\ \E n \in {New(last.pre, last.elts)} :
                /\ n.v # Nil
                /\ Members(n.st, n.v) = Members(last.post, last.res)
          /\ \A a \in 1 .. Len(last.pre) : last.post[a] = last.pre[a]
    /\ (last.op = "Update" /\ last.recv = Nil /\ ~Empty(last.pre, last.arg)) =>
          /\ last.res = Len(last.pre) + 1
          /\ last.res # last.arg
          /\ Members(last.post, last.res) = Members(last.pre, last.arg)
          /\ Members(last.post, last.arg) = Members(last.pre, last.arg)
          /\ Independent(last.post, last.res, last.arg)

\* Update has copied a set of two elements into an unset receiver.
C23_Witness ==
    /\ last.op = "Update"
    /\ last.recv = Nil
    /\ SetLen(last.pre, last.arg) = 2
    /\ last.res # Nil

\* After s.Remove(t) the receiver has the membership s.Diff(t) had, after
\* s.Update(t) that of s.Union(t); Discard(e1..en) has the effect and the result
\* of Remove(New(e1..en)), and Add(e1..en) the effect of Update(New(e1..en)).
InPlaceRefinesPure ==
    /\ last.op = "Remove" =>
          \E d \in {Diff(last.pre, last.recv, last.arg)} :
             Members(last.post, last.recv) = Members(d.st, d.v)
    /\ last.op = "Update" =>
          \E u \in {Union(last.pre, last.recv, last.arg)} :
             Members(last.post, last.res) = Members(u.st, u.v)
    /\ last.op = "Discard" =>
          \E n \in {New(last.pre, last.elts)} :
             \E r \in {Remove(n.st, last.recv, n.v)} :
                /\ Members(r.st, last.recv) = Members(last.post, last.recv)
                /\ r.ret = last.ret
    /\ last.op = "Add" =>
          \E n \in {New(last.pre, last.elts)} :
             \E u \in {Update(n.st, last.recv, n.v)} :
                Members(u.st, u.v) = Members(last.post, last.res)

\* C29 as stated: the in-place operations refine the pure ones (Remove is Diff,
\* Update is Union, Discard is Remove of New, Add is Update of New), and the
\* argument t of Remove and Update is left unchanged, for all sets s and t.
C29_RefinesArgUnchanged ==
    /\ InPlaceRefinesPure
    /\ last.op \in {"Remove", "Update"} =>
          Members(last.post, last.arg) = Members(last.pre, last.arg)

\* C29 amended: as above, with t left unchanged unless t is the receiver
\* itself, which Remove empties.
C29_InPlaceRefinesPure ==
    /\ InPlaceRefinesPure
    /\ (last.op \in {"Remove", "Update"} /\ last.arg # last.recv) =>
          Members(last.post, last.arg) = Members(last.pre, last.arg)
    /\ (last.op = "Update" /\ last.arg = last.recv) =>
          Members(last.post, last.arg) = Members(last.pre, last.arg)
    /\ (last.op = "Remove" /\ last.arg = last.recv) =>
          Members(last.post, last.arg) = {}

\* Remove has taken from the receiver some elements of another set.
C29_Witness ==
    /\ last.op = "Remove"
    /\ last.arg # last.recv
    /\ last.arg # Nil
    /\ last.ret
    /\ Members(last.post, last.recv) # {}

\* The operations with a set argument.
BinaryOps == {"IsSubset", "Equals", "Intersects", "Union", "Intersect", "Diff",
              "SymDiff", "Update", "Remove"}

\* What s.op(t) returns and leaves in store st: the boolean, the membership of
\* the set returned, and the membership of the receiver after the call.
Outcome(op, st, s, t) ==
    CASE op = "IsSubset" -> [ret |-> IsSubset(st, s, t), res |-> {}, recv |-> Members(st, s)]
      [] op = "Equals" -> [ret |-> Equals(st, s, t), res |-> {}, recv |-> Members(st, s)]
      [] op = "Intersects" -> [ret |-> Intersects(st, s, t), res |-> {}, recv |-> Members(st, s)]
      [] op = "Union" ->
            CHOOSE o \in {[ret |-> FALSE, res |-> Members(r.st, r.v), recv |-> Members(r.st, s)]
                            : r \in {Union(st, s, t)}} : TRUE
      [] op = "Intersect" ->
            CHOOSE o \in {[ret |-> FALSE, res |-> Members(r.st, r.v), recv |-> Members(r.st, s)]
                            : r \in {Intersect(st, s, t)}} : TRUE
      [] op = "Diff" ->
            CHOOSE o \in {[ret |-> FALSE, res |-> Members(r.st, r.v), recv |-> Members(r.st, s)]
                            : r \in {Diff(st, s, t)}} : TRUE
      [] op = "SymDiff" ->
            CHOOSE o \in {[ret |-> FALSE, res |-> Members(r.st, r.v), recv |-> Members(r.st, s)]
                            : r \in {SymDiff(st, s, t)}} : TRUE
      [] op = "Update" ->
            CHOOSE o \in {[ret |-> r.ret, res |-> {}, recv |-> Members(r.st, r.v)]
                            : r \in {Update(st, s, t)}} : TRUE
      [] op = "Remove" ->
            CHOOSE o \in {[ret |-> r.ret, res |-> {}, recv |-> Members(r.st, s)]
                            : r \in {Remove(st, s, t)}} : TRUE

\* The outcome of the last call.
LastOutcome ==
    [ret  |-> last.ret,
     res  |-> IF last.op \in {"Union", "Intersect", "Diff", "SymDiff"}
              THEN Members(last.post, last.res) ELSE {},
     recv |-> IF last.op = "Update" THEN Members(last.post, last.res)
              ELSE Members(last.post, last.recv)]

\* C30: an operation whose argument is the receiver itself gives the outcome it
\* gives for another set of the same membership: s.Update(s) returns false and
\* leaves s unchanged, s.Remove(s) leaves s empty and returns true exactly when
\* s was not empty, s.Diff(s) and s.SymDiff(s) are empty, s.Union(s) and
\* s.Intersect(s) have the membership of s, s.IsSubset(s) and s.Equals(s) are
\* true.
C30_SelfArgument ==
    (last.op \in BinaryOps /\ last.arg = last.recv) =>
        /\ \E m \in {Make(last.pre)} :
              \E st \in {StoreKeys(m.st, m.v, Members(last.pre, last.recv))} :
                 /\ Outcome(last.op, st, last.recv, m.v) = LastOutcome
                 /\ Outcome(last.op, last.pre, last.recv, last.recv) = LastOutcome
        /\ last.op = "Update" =>
              ~last.ret /\ Members(last.post, last.res) = Members(last.pre, last.recv)
        /\ last.op = "Remove" =>
              /\ Members(last.post, last.recv) = {}
              /\ last.ret <=> Members(last.pre, last.recv) # {}
        /\ last.op \in {"Diff", "SymDiff"} => Members(last.post, last.res) = {}
        /\ last.op \in {"Union", "Intersect"} =>
              Members(last.post, last.res) = Members(last.pre, last.recv)
        /\ last.op \in {"IsSubset", "Equals"} => last.ret

\* A set that is not empty has been removed from itself.
C30_Witness ==
    /\ last.op = "Remove"
    /\ last.recv # Nil
    /\ last.arg = last.recv
    /\ Members(last.pre, last.recv) # {}
    /\ last.ret

\* The configuration lacks a required field or has a number of testValues
\* other than 0 and 10.
Invalid(raw) ==
    \/ raw.Package = ""
    \/ raw.Type = ""
    \/ raw.Zero = ""
    \/ raw.TestValues \notin {0, 10}

\* The run has ended because main refused the configuration.
Rejected ==
    /\ gen.pc = "exit"
    /\ gen.err \in {"Error loading configuration: invalid", "Wrong number of test values"}

\* C24: a configuration is rejected exactly when its package, type or zero is
\* empty or the number of its testValues is neither 0 nor 10: the run of a
\* rejected configuration ends before the output directory is created and
\* before any file is written, and no other configuration is rejected.
C24_RejectedIffInvalid ==
    /\ Rejected => (Invalid(gen.raw) /\ gen.dirs = {} /\ gen.files = {})
    /\ gen.pc \in {"MkdirAll", "generate main", "generate test", "done"} =>
          ~Invalid(gen.raw)
    /\ (gen.dirs # {} \/ gen.files # {}) => ~Invalid(gen.raw)

\* A configuration with nine testValues and nothing else wrong has been
\* rejected.
C24_Witness ==
    /\ Rejected
    /\ gen.raw.TestValues = 9
    /\ gen.raw.Package # "" /\ gen.raw.Type # "" /\ gen.raw.Zero # ""

\* The list q of package paths is in ascending order without repetition.
Ascending(q) == \A i \in 1 .. (Len(q) - 1) : StrLess(q[i], q[i + 1])

\* The texts that template t gives for the configurations that differ from raw
\* only in the order and repetition of imports and testImports.
TextsOfReordered(t, raw) ==
    {FormatSource(Execute(t, [raw EXCEPT !.Imports = imps, !.TestImports = t2])) :
        imps \in UNION {resolveImports([raw EXCEPT !.Imports = i2]) :
                          i2 \in {q \in ImportSeqs : Range(q) = Range(raw.Imports)}},
        t2 \in {q \in ImportSeqs : Range(q) = Range(raw.TestImports)}}

\* C25: imports and testImports both reach their templates without repetition
\* and in lexicographic order, so that configurations that differ only in the
\* order or the repetition of their entries give the same implementation text
\* and the same test text.
C25_ImportListsNormalised ==
    /\ gen.pc \in {"generate main", "generate test", "done"} =>
          /\ Ascending(Execute("main", gen.conf).imports)
          /\ TextsOfReordered("main", gen.raw) =
                {FormatSource(Execute("main", gen.conf))}
    /\ gen.pc = "generate test" =>
          /\ Ascending(Execute("test", gen.conf).imports)
          /\ TextsOfReordered("test", gen.raw) =
                {FormatSource(Execute("test", gen.conf))}

\* The files a run with the configuration c writes if nothing fails.
Intended(dir, c) ==
    {<<dir, c.Package, ".go">>}
        \cup (IF c.TestValues # 0 THEN {<<dir, c.Package, "_test.go">>} ELSE {})

\* C26: a run writes every file it is to write or none: when it has ended,
\* either all the intended files are there, whole, or no file is, and a run
\* that failed has left no file.
C26_AllOrNothing ==
    gen.pc \in {"exit", "done"} =>
        /\ \/ gen.files = {}
           \/ /\ {f.path : f \in gen.files} = Intended(gen.outDir, gen.conf)
              /\ \A f \in gen.files : f.whole
        /\ gen.pc = "exit" => gen.files = {}

\* C27: a run that succeeds has written one implementation file <package>.go
\* and, exactly when testValues were given, one test file <package>_test.go,
\* both in the output directory; the test file is written only after the
\* implementation file has been written whole.
C27_FilesOfSuccessfulRun ==
    /\ gen.pc = "done" =>
          /\ {f.path : f \in gen.files} = Intended(gen.outDir, gen.raw)
          /\ Cardinality(gen.files) = Cardinality(Intended(gen.outDir, gen.raw))
          /\ \A f \in gen.files :
                /\ f.whole
                /\ f.text.template =
                      (IF f.path = <<gen.outDir, gen.raw.Package, ".go">> THEN "main" ELSE "test")
          /\ gen.outDir \in gen.dirs
    /\ gen.pc \in {"generate main", "generate test", "done", "exit"} =>
          \A f \in gen.files :
             f.path = <<gen.outDir, gen.raw.Package, "_test.go">> =>
                \E m \in gen.files :
                   /\ m.path = <<gen.outDir, gen.raw.Package, ".go">>
                   /\ m.whole
                   /\ m.text.template = "main"

\* A run with ten testValues has succeeded.
C27_Witness ==
    /\ gen.pc = "done"
    /\ gen.raw.TestValues = 10
    /\ Cardinality(gen.files) = 2

\* C28: the list of imports given to the implementation template is the
\* ascending list without repetition of reflect, sort and strings, of the
\* imports of the configuration, and of fmt exactly when toString is absent or
\* fmt is among the imports; resolving a configuration with that list gives the
\* same list.
C28_ResolvedImports ==
    gen.pc \in {"testValues", "MkdirAll", "generate main", "generate test", "done"} =>
        /\ Ascending(gen.conf.Imports)
        /\ Range(gen.conf.Imports) =
              {PkgReflect, PkgSort, PkgStrings} \cup Range(gen.raw.Imports)
                  \cup (IF gen.raw.ToString = "" THEN {PkgFmt} ELSE {})
        /\ PkgFmt \in Range(gen.conf.Imports) <=>
              (gen.raw.ToString = "" \/ PkgFmt \in Range(gen.raw.Imports))
        /\ Execute("main", gen.conf).imports = gen.conf.Imports
        /\ resolveImports(gen.conf) = {gen.conf.Imports}

\* A configuration with toString and a repeated import other than fmt has been
\* read.
C28_Witness ==
    /\ gen.pc = "testValues"
    /\ gen.raw.ToString # ""
    /\ gen.raw.Imports = <<PkgOs, PkgOs>>
    /\ PkgFmt \notin Range(gen.conf.Imports)

====
